---- MODULE Spec2Model ----
(***************************************************************************)
(* SkStrikeSpecStorage (src/core/SkStrikeSpec.cpp): the variant factories   *)
(* MakeMask, MakePath, MakeSourceFallback, MakeCanonicalized, MakeDefault,  *)
(* MakePDFVector and MakeSDFT, their shared commonSetup, and the three      *)
(* cache resolvers.                                                         *)
(*                                                                          *)
(* SkScalar is an IEEE-754 binary32.  A scalar is a record                  *)
(*   [c |-> "fin", m |-> mantissa, e |-> exponent]   value m * 2^e,         *)
(* with 2^23 <= m < 2^24 (or m = 0, e = 0 for zero), or c = "inf" / "nan".  *)
(* Only non-negative values occur.  Every arithmetic step rounds to nearest *)
(* (ties to even) as the hardware does; exponent overflow and subnormals    *)
(* are outside the ranges the model draws its inputs from.                  *)
(***************************************************************************)
EXTENDS Integers, Sequences, FiniteSets, TLC

(* ------------------------------------------------------------------ *)
(* SkScalar arithmetic                                                 *)
(* ------------------------------------------------------------------ *)
TwoTo12 == 2 ^ 12

TwoTo23 == 2 ^ 23

TwoTo24 == 2 ^ 24

F32Zero == [c |-> "fin", m |-> 0, e |-> 0]

F32Inf == [c |-> "inf", m |-> 0, e |-> 0]

F32NaN == [c |-> "nan", m |-> 0, e |-> 0]

RECURSIVE BitLen(_)
BitLen(n) == IF n = 0 THEN 0 ELSE 1 + BitLen(n \div 2)

(* The scalar of a mantissa/exponent pair already below 2^24: shifted    *)
(* left until the leading bit is bit 23 (exact).                          *)
F32Norm(m, e) ==
    IF m = 0 THEN F32Zero
    ELSE LET sh == 24 - BitLen(m)
         IN  [c |-> "fin", m |-> m * (2 ^ sh), e |-> e - sh]

(* SkIntToScalar for 0 <= n < 2^24 (exact). *)
SkIntToScalar(n) == F32Norm(n, 0)

(* Round-to-nearest-even of (q + rem/den) * 2^e, where 2^23 <= q < 2^24  *)
(* and 0 <= rem < den.                                                    *)
F32Round(q, rem, den, e) ==
    LET up == IF 2 * rem > den THEN 1
              ELSE IF 2 * rem = den /\ q % 2 = 1 THEN 1 ELSE 0
        r  == q + up
    IN  IF r = TwoTo24 THEN [c |-> "fin", m |-> TwoTo23, e |-> e + 1]
        ELSE [c |-> "fin", m |-> r, e |-> e]

(* <<floor(num * 2^k / den), remainder>> by binary long division. *)
RECURSIVE LongDiv(_, _, _)
LongDiv(num, den, k) ==
    IF k = 0 THEN <<num \div den, num % den>>
    ELSE LET p  == LongDiv(num, den, k - 1)
             r2 == 2 * p[2]
         IN  IF r2 >= den THEN <<2 * p[1] + 1, r2 - den>>
             ELSE <<2 * p[1], r2>>

(* x / y in binary32. *)
F32Div(x, y) ==
    IF x.c = "nan" \/ y.c = "nan" THEN F32NaN
    ELSE IF x.c = "inf" THEN (IF y.c = "inf" THEN F32NaN ELSE F32Inf)
    ELSE IF y.c = "inf" THEN F32Zero
    ELSE IF y.m = 0 THEN (IF x.m = 0 THEN F32NaN ELSE F32Inf)
    ELSE IF x.m = 0 THEN F32Zero
    ELSE LET k == IF x.m >= y.m THEN 23 ELSE 24
             p == LongDiv(x.m, y.m, k)
         IN  F32Round(p[1], p[2], y.m, x.e - y.e - k)

(* x * y in binary32: the 48-bit product of the mantissas is held as      *)
(* hi * 2^24 + lo and rounded to 24 bits.                                  *)
F32Mul(x, y) ==
    IF x.c = "nan" \/ y.c = "nan" THEN F32NaN
    ELSE IF x.c = "inf" \/ y.c = "inf"
         THEN (IF (x.c = "fin" /\ x.m = 0) \/ (y.c = "fin" /\ y.m = 0)
               THEN F32NaN ELSE F32Inf)
    ELSE IF x.m = 0 \/ y.m = 0 THEN F32Zero
    ELSE LET a   == x.m \div TwoTo12
             b   == x.m % TwoTo12
             cc  == y.m \div TwoTo12
             d   == y.m % TwoTo12
             mid == a * d + b * cc
             lo0 == b * d + (mid % TwoTo12) * TwoTo12
             lo  == lo0 % TwoTo24
             hi  == a * cc + (mid \div TwoTo12) + (lo0 \div TwoTo24)
         IN  IF hi >= TwoTo23
             THEN F32Round(hi, lo, TwoTo24, x.e + y.e + 24)
             ELSE F32Round(2 * hi + (lo \div TwoTo23), lo % TwoTo23,
                           TwoTo23, x.e + y.e + 23)

(* SkScalarFloorToScalar (floorf) of a non-negative scalar. *)
SkScalarFloorToScalar(x) ==
    IF x.c # "fin" THEN x
    ELSE IF x.e >= 0 THEN x
    ELSE IF x.e <= -24 THEN F32Zero
    ELSE F32Norm(x.m \div (2 ^ (0 - x.e)), 0)

(* x <= y for finite non-negative scalars. *)
F32Leq(x, y) ==
    IF x.m = 0 THEN TRUE
    ELSE IF y.m = 0 THEN FALSE
    ELSE IF x.e # y.e THEN x.e < y.e
    ELSE x.m <= y.m

F32Pos(x) == x.c = "fin" /\ x.m > 0

F32One == SkIntToScalar(1)


(* ------------------------------------------------------------------ *)
(* Collaborators of SkStrikeSpec.cpp (SkFont, SkPaint, SkTypeface,      *)
(* SkDraw, SkScalerContext, GrTextContext)                              *)
(* ------------------------------------------------------------------ *)

(* SkStrikeCommon::kSkSideTooBigForAtlas: the atlas side limit. *)
kSkSideTooBigForAtlas == 4096

(* SkFontPriv::kCanonicalTextSizeForPaths. *)
kCanonicalTextSizeForPaths == 64

(* GrTextContext's distance-field buckets. *)
kSmallDFFontSize == 32

kMediumDFFontSize == 72

kLargeDFFontSize == 162

(* The text size of a default-constructed SkFont. *)
kDefaultTextSize == 12

(* SkTypeface::getUnitsPerEm of the typefaces the model draws from. *)
getUnitsPerEm(typeface) ==
    CASE typeface = "tfA" -> 2048
      [] typeface = "tfB" -> 0
      [] typeface = "tfC" -> 0 - 1
      [] OTHER -> 1000

(* SkFont::refTypefaceOrDefault: the font's typeface, or the library    *)
(* default when the font carries none.                                   *)
refTypefaceOrDefault(font) ==
    IF font.fTypeface = "null" THEN "default" ELSE font.fTypeface

(* SkFont(): a default-constructed font. *)
DefaultFont ==
    [fTypeface |-> "null", fSize |-> SkIntToScalar(kDefaultTextSize),
     fHinting |-> "normal", fEdging |-> "antiAlias", fSubpixel |-> FALSE]

(* SkPaint(): a default-constructed paint (also the result of reset()). *)
DefaultPaint ==
    [fPathEffect |-> "null", fMaskFilter |-> "null", fStyle |-> "fill"]

(* SkFont::setupForAsPaths, the font it leaves: hinting off, LCD edging  *)
(* demoted, the canonical path size; the subpixel flag is switched on.   *)
setupForAsPathsFont(font) ==
    [font EXCEPT !.fHinting = "none",
                 !.fEdging = IF font.fEdging = "subpixelAntiAlias"
                             THEN "antiAlias" ELSE font.fEdging,
                 !.fSubpixel = TRUE,
                 !.fSize = SkIntToScalar(kCanonicalTextSizeForPaths)]

(* SkFont::setupForAsPaths, the paint it leaves when one is passed. *)
setupForAsPathsPaint(paint) ==
    [paint EXCEPT !.fStyle = "fill", !.fPathEffect = "null"]

(* SkFont::setupForAsPaths, its return value: old size / canonical size. *)
setupForAsPathsRatio(font) ==
    F32Div(font.fSize, SkIntToScalar(kCanonicalTextSizeForPaths))

(* SkDraw::ShouldDrawTextAsPaths(font, paint, SkMatrix::I()): hairline   *)
(* strokes, and text too big for the glyph cache, are drawn as paths.    *)
ShouldDrawTextAsPaths(font, paint) ==
    IF paint.fStyle = "hairline" THEN TRUE
    ELSE ~F32Leq(font.fSize, SkIntToScalar(1024))

(* SkMatrix::getMaxScale of the device matrices the model draws from. *)
MatrixMaxScale(matrix) ==
    IF matrix = "scale8" THEN SkIntToScalar(8) ELSE F32One

(* SkScalerContext::CreateDescriptorAndEffectsUsingPaint, the descriptor:*)
(* the encoding of every rendering-affecting parameter.                  *)
CreateDescriptor(font, paint, surfaceProps, scalerContextFlags, deviceMatrix) ==
    [fontID |-> refTypefaceOrDefault(font),
     textSize |-> font.fSize,
     hinting |-> font.fHinting,
     edging |-> font.fEdging,
     subpixel |-> font.fSubpixel,
     style |-> paint.fStyle,
     hasPathEffect |-> paint.fPathEffect # "null",
     hasMaskFilter |-> paint.fMaskFilter # "null",
     surfaceProps |-> surfaceProps,
     flags |-> scalerContextFlags,
     matrix |-> deviceMatrix]

(* SkScalerContext::CreateDescriptorAndEffectsUsingPaint, the effects. *)
CreateEffects(paint) ==
    [fPathEffect |-> paint.fPathEffect, fMaskFilter |-> paint.fMaskFilter]

(* GrTextContext::InitDistanceFieldPaint. *)
InitDistanceFieldPaint(paint) == [paint EXCEPT !.fMaskFilter = "sdfMaskFilter"]

(* scaled_text_size: the text size on the device. *)
ScaledTextSize(textSize, matrix) == F32Mul(textSize, MatrixMaxScale(matrix))

(* The bucket GrTextContext picks for a device text size. *)
DFBucket(textSize, matrix) ==
    LET scaled == ScaledTextSize(textSize, matrix)
    IN  IF F32Leq(scaled, SkIntToScalar(kSmallDFFontSize)) THEN "small"
        ELSE IF F32Leq(scaled, SkIntToScalar(kMediumDFFontSize)) THEN "medium"
        ELSE "large"

DFBucketSize(bucket) ==
    CASE bucket = "small" -> kSmallDFFontSize
      [] bucket = "medium" -> kMediumDFFontSize
      [] OTHER -> kLargeDFFontSize

(* GrTextContext::InitDistanceFieldFont, the font it returns. *)
InitDistanceFieldFont(font, matrix) ==
    [font EXCEPT !.fSize = SkIntToScalar(DFBucketSize(DFBucket(font.fSize, matrix))),
                 !.fEdging = "antiAlias",
                 !.fHinting = "normal",
                 !.fSubpixel = FALSE]

(* GrTextContext::InitDistanceFieldFont, the ratio it writes. *)
InitDistanceFieldRatio(font, matrix) ==
    F32Div(font.fSize, SkIntToScalar(DFBucketSize(DFBucket(font.fSize, matrix))))

(* GrTextContext::InitDistanceFieldMinMaxScale: the floor and ceiling of *)
(* the bucket, each over the device text size.                           *)
InitDistanceFieldMinMaxScale(textSize, matrix, options) ==
    LET scaled == ScaledTextSize(textSize, matrix)
        bucket == DFBucket(textSize, matrix)
        floor  == CASE bucket = "small" -> options.fMinDistanceFieldFontSize
                    [] bucket = "medium" -> kSmallDFFontSize
                    [] OTHER -> kMediumDFFontSize
        ceil   == CASE bucket = "small" -> kSmallDFFontSize
                    [] bucket = "medium" -> kMediumDFFontSize
                    [] OTHER -> options.fMaxDistanceFieldFontSize
    IN  [minScale |-> F32Div(SkIntToScalar(floor), scaled),
         maxScale |-> F32Div(SkIntToScalar(ceil), scaled)]

(* ------------------------------------------------------------------ *)
(* SkStrikeSpecStorage                                                  *)
(* ------------------------------------------------------------------ *)

(* An SkAutoDescriptor that holds no descriptor yet. *)
EmptyDescriptor ==
    [fontID |-> "none", textSize |-> F32Zero, hinting |-> "none",
     edging |-> "none", subpixel |-> FALSE, style |-> "none",
     hasPathEffect |-> FALSE, hasMaskFilter |-> FALSE,
     surfaceProps |-> "none", flags |-> "none", matrix |-> "none"]

VARIABLES
    storage,     \* the SkStrikeSpecStorage the last factory call returned
    kind,        \* which factory made it ("none" before the first call)
    args,        \* the arguments of that call
    setup,       \* what that call handed to commonSetup
    out,         \* what that call returned beside the storage
    cacheCalls,  \* the calls the resolvers of this storage made on the cache
    prev         \* an earlier call, remembered: its kind, args, storage, out

vars == <<storage, kind, args, setup, out, cacheCalls, prev>>

(* The members of an SkStrikeSpecStorage as their initialisers leave     *)
(* them: no descriptor, null references, a ratio of 1.                   *)
SkStrikeSpecStorage ==
    [fAutoDescriptor |-> EmptyDescriptor, fMaskFilter |-> "null",
     fPathEffect |-> "null", fTypeface |-> "null",
     fStrikeToSourceRatio |-> F32One]

(* `SkStrikeSpecStorage storage;` as a variable that outlives the call   *)
(* (a static local): it still holds what the previous call left in it.   *)
DefaultStorageStale == storage

(* `SkStrikeSpecStorage storage;`: the fresh local each factory fills. *)
DefaultStorage == SkStrikeSpecStorage

(* The five arguments of a commonSetup call, as the model records them. *)
SetupArgs(font, paint, surfaceProps, scalerContextFlags, deviceMatrix) ==
    [font |-> font, paint |-> paint, surfaceProps |-> surfaceProps,
     flags |-> scalerContextFlags, matrix |-> deviceMatrix]

(* commonSetup keeping the font's own typeface pointer. *)
commonSetupRawTypeface(st, font, paint, surfaceProps, scalerContextFlags, deviceMatrix) ==
    [st EXCEPT
        !.fAutoDescriptor = CreateDescriptor(font, paint, surfaceProps,
                                             scalerContextFlags, deviceMatrix),
        !.fMaskFilter = CreateEffects(paint).fMaskFilter,
        !.fPathEffect = CreateEffects(paint).fPathEffect,
        !.fTypeface = font.fTypeface]

commonSetup(st, font, paint, surfaceProps, scalerContextFlags, deviceMatrix) ==
    [st EXCEPT
        !.fAutoDescriptor = CreateDescriptor(font, paint, surfaceProps,
                                             scalerContextFlags, deviceMatrix),
        !.fMaskFilter = CreateEffects(paint).fMaskFilter,
        !.fPathEffect = CreateEffects(paint).fPathEffect,
        !.fTypeface = refTypefaceOrDefault(font)]

(* What a factory returns beside the storage when it returns nothing. *)
NoOut ==
    [sizeGiven |-> FALSE, size |-> 0, minScale |-> F32Zero, maxScale |-> F32Zero]

(* MakeMask substituting the identity matrix. *)
MakeMaskIdentity(font, paint, surfaceProps, scalerContextFlags, deviceMatrix) ==
    [storage |-> commonSetup(DefaultStorage, font, paint, surfaceProps,
                             scalerContextFlags, "I"),
     setup |-> SetupArgs(font, paint, surfaceProps, scalerContextFlags, "I"),
     out |-> NoOut]

MakeMask(font, paint, surfaceProps, scalerContextFlags, deviceMatrix) ==
    [storage |-> commonSetup(DefaultStorage, font, paint, surfaceProps,
                             scalerContextFlags, deviceMatrix),
     setup |-> SetupArgs(font, paint, surfaceProps, scalerContextFlags, deviceMatrix),
     out |-> NoOut]

(* MakePath without the setSubpixel(false) step. *)
MakePathKeepSubpixel(font, paint, surfaceProps, scalerContextFlags) ==
    LET pathPaint == setupForAsPathsPaint(paint)
        pathFont  == setupForAsPathsFont(font)
        st        == [DefaultStorage EXCEPT
                         !.fStrikeToSourceRatio = setupForAsPathsRatio(font)]
    IN  [storage |-> commonSetup(st, pathFont, pathPaint, surfaceProps,
                                 scalerContextFlags, "I"),
         setup |-> SetupArgs(pathFont, pathPaint, surfaceProps, scalerContextFlags, "I"),
         out |-> NoOut]

MakePath(font, paint, surfaceProps, scalerContextFlags) ==
    LET pathPaint == setupForAsPathsPaint(paint)
        pathFont0 == setupForAsPathsFont(font)
        st        == [DefaultStorage EXCEPT
                         !.fStrikeToSourceRatio = setupForAsPathsRatio(font)]
        pathFont  == [pathFont0 EXCEPT !.fSubpixel = FALSE]
    IN  [storage |-> commonSetup(st, pathFont, pathPaint, surfaceProps,
                                 scalerContextFlags, "I"),
         setup |-> SetupArgs(pathFont, pathPaint, surfaceProps, scalerContextFlags, "I"),
         out |-> NoOut]

(* MakeSourceFallback without the bilerp pad subtracted. *)
MakeSourceFallbackNoPad(font, paint, surfaceProps, scalerContextFlags, maxSourceGlyphDimension) ==
    LET maxAtlasDimension == SkIntToScalar(kSkSideTooBigForAtlas)
        runFontTextSize   == font.fSize
        fallbackTextSize  == SkScalarFloorToScalar(
                                 F32Mul(F32Div(maxAtlasDimension, maxSourceGlyphDimension),
                                        runFontTextSize))
        fallbackFont      == [font EXCEPT !.fSize = fallbackTextSize, !.fSubpixel = FALSE]
        st                == [DefaultStorage EXCEPT
                                 !.fStrikeToSourceRatio =
                                     F32Div(runFontTextSize, fallbackTextSize)]
    IN  [storage |-> commonSetup(st, fallbackFont, paint, surfaceProps,
                                 scalerContextFlags, "I"),
         setup |-> SetupArgs(fallbackFont, paint, surfaceProps, scalerContextFlags, "I"),
         out |-> NoOut]

MakeSourceFallback(font, paint, surfaceProps, scalerContextFlags, maxSourceGlyphDimension) ==
    LET maxAtlasDimension == SkIntToScalar(kSkSideTooBigForAtlas - 2)
        runFontTextSize   == font.fSize
        fallbackTextSize  == SkScalarFloorToScalar(
                                 F32Mul(F32Div(maxAtlasDimension, maxSourceGlyphDimension),
                                        runFontTextSize))
        fallbackFont      == [font EXCEPT !.fSize = fallbackTextSize, !.fSubpixel = FALSE]
        st                == [DefaultStorage EXCEPT
                                 !.fStrikeToSourceRatio =
                                     F32Div(runFontTextSize, fallbackTextSize)]
    IN  [storage |-> commonSetup(st, fallbackFont, paint, surfaceProps,
                                 scalerContextFlags, "I"),
         setup |-> SetupArgs(fallbackFont, paint, surfaceProps, scalerContextFlags, "I"),
         out |-> NoOut]

(* MakeCanonicalized without canonicalizedPaint.reset(). *)
MakeCanonicalizedKeepPaint(font, hasPaint, paint) ==
    LET canonicalizedPaint == IF hasPaint THEN paint ELSE DefaultPaint
        asPaths == ShouldDrawTextAsPaths(font, canonicalizedPaint)
        canonicalizedFont == IF asPaths THEN setupForAsPathsFont(font) ELSE font
        st == IF asPaths
              THEN [DefaultStorage EXCEPT
                       !.fStrikeToSourceRatio = setupForAsPathsRatio(font)]
              ELSE DefaultStorage
    IN  [storage |-> commonSetup(st, canonicalizedFont, canonicalizedPaint,
                                 "legacyFontHost", "fakeGammaAndBoostContrast", "I"),
         setup |-> SetupArgs(canonicalizedFont, canonicalizedPaint,
                             "legacyFontHost", "fakeGammaAndBoostContrast", "I"),
         out |-> NoOut]

MakeCanonicalized(font, hasPaint, paint) ==
    LET canonicalizedPaint0 == IF hasPaint THEN paint ELSE DefaultPaint
        asPaths == ShouldDrawTextAsPaths(font, canonicalizedPaint0)
        canonicalizedFont == IF asPaths THEN setupForAsPathsFont(font) ELSE font
        st == IF asPaths
              THEN [DefaultStorage EXCEPT
                       !.fStrikeToSourceRatio = setupForAsPathsRatio(font)]
              ELSE DefaultStorage
        canonicalizedPaint == IF asPaths THEN DefaultPaint ELSE canonicalizedPaint0
    IN  [storage |-> commonSetup(st, canonicalizedFont, canonicalizedPaint,
                                 "legacyFontHost", "fakeGammaAndBoostContrast", "I"),
         setup |-> SetupArgs(canonicalizedFont, canonicalizedPaint,
                             "legacyFontHost", "fakeGammaAndBoostContrast", "I"),
         out |-> NoOut]

MakeDefault == MakeCanonicalized(DefaultFont, FALSE, DefaultPaint)

(* MakePDFVector testing unitsPerEm < 0. *)
MakePDFVectorStrict(typeface, hasSize) ==
    LET upem0 == getUnitsPerEm(typeface)
        unitsPerEm == IF upem0 < 0 THEN 1024 ELSE upem0
        font == [DefaultFont EXCEPT !.fHinting = "none", !.fEdging = "alias",
                                    !.fTypeface = typeface,
                                    !.fSize = SkIntToScalar(unitsPerEm)]
    IN  [storage |-> commonSetup(DefaultStorage, font, DefaultPaint,
                                 "unknownPixelGeometry", "fakeGammaAndBoostContrast", "I"),
         setup |-> SetupArgs(font, DefaultPaint, "unknownPixelGeometry",
                             "fakeGammaAndBoostContrast", "I"),
         out |-> [NoOut EXCEPT !.sizeGiven = hasSize,
                               !.size = IF hasSize THEN unitsPerEm ELSE 0]]

MakePDFVector(typeface, hasSize) ==
    LET upem0 == getUnitsPerEm(typeface)
        unitsPerEm == IF upem0 <= 0 THEN 1024 ELSE upem0
        font == [DefaultFont EXCEPT !.fHinting = "none", !.fEdging = "alias",
                                    !.fTypeface = typeface,
                                    !.fSize = SkIntToScalar(unitsPerEm)]
    IN  [storage |-> commonSetup(DefaultStorage, font, DefaultPaint,
                                 "unknownPixelGeometry", "fakeGammaAndBoostContrast", "I"),
         setup |-> SetupArgs(font, DefaultPaint, "unknownPixelGeometry",
                             "fakeGammaAndBoostContrast", "I"),
         out |-> [NoOut EXCEPT !.sizeGiven = hasSize,
                               !.size = IF hasSize THEN unitsPerEm ELSE 0]]

(* MakeSDFT taking the scale range of the distance-field font's size. *)
MakeSDFTRangeOfDfFont(font, paint, surfaceProps, deviceMatrix, options) ==
    LET dfPaint == InitDistanceFieldPaint(paint)
        dfFont  == InitDistanceFieldFont(font, deviceMatrix)
        st      == [DefaultStorage EXCEPT
                       !.fStrikeToSourceRatio = InitDistanceFieldRatio(font, deviceMatrix)]
        range   == InitDistanceFieldMinMaxScale(dfFont.fSize, deviceMatrix, options)
    IN  [storage |-> commonSetup(st, dfFont, dfPaint, surfaceProps, "none", "I"),
         setup |-> SetupArgs(dfFont, dfPaint, surfaceProps, "none", "I"),
         out |-> [NoOut EXCEPT !.minScale = range.minScale,
                               !.maxScale = range.maxScale]]

MakeSDFT(font, paint, surfaceProps, deviceMatrix, options) ==
    LET dfPaint == InitDistanceFieldPaint(paint)
        dfFont  == InitDistanceFieldFont(font, deviceMatrix)
        st      == [DefaultStorage EXCEPT
                       !.fStrikeToSourceRatio = InitDistanceFieldRatio(font, deviceMatrix)]
        flags   == "none"
        range   == InitDistanceFieldMinMaxScale(font.fSize, deviceMatrix, options)
    IN  [storage |-> commonSetup(st, dfFont, dfPaint, surfaceProps, flags, "I"),
         setup |-> SetupArgs(dfFont, dfPaint, surfaceProps, flags, "I"),
         out |-> [NoOut EXCEPT !.minScale = range.minScale,
                               !.maxScale = range.maxScale]]

(* What a resolver hands to the cache: the method called and its         *)
(* arguments (passed = FALSE: the method takes no effects, no typeface). *)
findOrCreateGrStrike(st) ==
    [method |-> "getStrike", desc |-> st.fAutoDescriptor, passed |-> FALSE,
     fPathEffect |-> "null", fMaskFilter |-> "null", typeface |-> "null"]

(* findOrCreateScopedStrike building the effects in the other order. *)
findOrCreateScopedStrikeSwapped(st) ==
    [method |-> "findOrCreateScopedStrike", desc |-> st.fAutoDescriptor,
     passed |-> TRUE, fPathEffect |-> st.fMaskFilter,
     fMaskFilter |-> st.fPathEffect, typeface |-> st.fTypeface]

findOrCreateScopedStrike(st) ==
    [method |-> "findOrCreateScopedStrike", desc |-> st.fAutoDescriptor,
     passed |-> TRUE, fPathEffect |-> st.fPathEffect,
     fMaskFilter |-> st.fMaskFilter, typeface |-> st.fTypeface]

findOrCreateExclusiveStrike(st) ==
    [method |-> "findOrCreateStrikeExclusive", desc |-> st.fAutoDescriptor,
     passed |-> TRUE, fPathEffect |-> st.fPathEffect,
     fMaskFilter |-> st.fMaskFilter, typeface |-> st.fTypeface]

(* ------------------------------------------------------------------ *)
(* The inputs the model draws from                                      *)
(* ------------------------------------------------------------------ *)

(* The cache calls recorded per storage. *)
MaxCalls == 1

TextSizes == {1, 7, 100}

FontStyles ==
    {[h |-> "normal", e |-> "subpixelAntiAlias", s |-> TRUE],
     [h |-> "none", e |-> "alias", s |-> FALSE],
     [h |-> "normal", e |-> "antiAlias", s |-> FALSE]}

Fonts ==
    {[fTypeface |-> t, fSize |-> SkIntToScalar(n), fHinting |-> st.h,
      fEdging |-> st.e, fSubpixel |-> st.s] :
        t \in {"null", "tfA"}, n \in TextSizes, st \in FontStyles}

Paints ==
    {DefaultPaint,
     [fPathEffect |-> "dash", fMaskFilter |-> "null", fStyle |-> "fill"],
     [fPathEffect |-> "null", fMaskFilter |-> "blur", fStyle |-> "hairline"],
     [fPathEffect |-> "dash", fMaskFilter |-> "blur", fStyle |-> "fill"]}

MaskEnvs ==
    {[surfaceProps |-> "rgbH", flags |-> "none", matrix |-> "I"],
     [surfaceProps |-> "unknownPixelGeometry", flags |-> "fakeGamma", matrix |-> "scale8"]}

PathEnvs ==
    {[surfaceProps |-> "rgbH", flags |-> "none"],
     [surfaceProps |-> "unknownPixelGeometry", flags |-> "fakeGamma"]}

FallbackEnvs ==
    {[surfaceProps |-> "rgbH", flags |-> "none", maxDim |-> SkIntToScalar(7)],
     [surfaceProps |-> "unknownPixelGeometry", flags |-> "fakeGamma",
      maxDim |-> SkIntToScalar(500)],
     [surfaceProps |-> "rgbH", flags |-> "fakeGamma", maxDim |-> SkIntToScalar(5000)]}

(* GrTextContext::Options: the library's defaults, and a caller's whose  *)
(* minimum lies above the small bucket's limit.                          *)
DefaultOptions == [fMinDistanceFieldFontSize |-> 18, fMaxDistanceFieldFontSize |-> 324]

HighMinOptions == [fMinDistanceFieldFontSize |-> 40, fMaxDistanceFieldFontSize |-> 324]

SDFTEnvs ==
    {[surfaceProps |-> "rgbH", matrix |-> "I", options |-> DefaultOptions],
     [surfaceProps |-> "unknownPixelGeometry", matrix |-> "scale8", options |-> DefaultOptions],
     [surfaceProps |-> "rgbH", matrix |-> "scale8", options |-> HighMinOptions]}

PDFTypefaces == {"tfA", "tfB", "tfC", "tfD"}

(* The few inputs of the two-call specification. *)
FewFonts ==
    {[fTypeface |-> "null", fSize |-> SkIntToScalar(7), fHinting |-> "normal",
      fEdging |-> "subpixelAntiAlias", fSubpixel |-> TRUE],
     [fTypeface |-> "tfA", fSize |-> SkIntToScalar(100), fHinting |-> "none",
      fEdging |-> "alias", fSubpixel |-> FALSE]}

FewPaints ==
    {DefaultPaint,
     [fPathEffect |-> "dash", fMaskFilter |-> "blur", fStyle |-> "hairline"]}

FewMaskEnvs == {[surfaceProps |-> "rgbH", flags |-> "fakeGamma", matrix |-> "scale8"]}

FewPathEnvs == {[surfaceProps |-> "rgbH", flags |-> "fakeGamma"]}

FewFallbackEnvs ==
    {[surfaceProps |-> "rgbH", flags |-> "none", maxDim |-> SkIntToScalar(500)]}

FewSDFTEnvs ==
    {[surfaceProps |-> "rgbH", matrix |-> "scale8", options |-> DefaultOptions]}

FewTypefaces == {"tfA", "tfB"}

(* The arguments of a call, with the ones the factory does not take at   *)
(* fixed values.                                                         *)
BaseArgs ==
    [font |-> DefaultFont, paint |-> DefaultPaint, hasPaint |-> FALSE,
     surfaceProps |-> "none", flags |-> "none", matrix |-> "none",
     maxDim |-> F32Zero, typeface |-> "null", hasSize |-> FALSE,
     options |-> DefaultOptions]

NoPrev == [kind |-> "none", args |-> BaseArgs, storage |-> SkStrikeSpecStorage, out |-> NoOut]

(* ------------------------------------------------------------------ *)
(* The state machine                                                    *)
(* ------------------------------------------------------------------ *)

Init ==
    /\ storage = SkStrikeSpecStorage
    /\ kind = "none"
    /\ args = BaseArgs
    /\ setup = SetupArgs(DefaultFont, DefaultPaint, "none", "none", "none")
    /\ out = NoOut
    /\ cacheCalls = <<>>
    /\ prev = NoPrev

(* A factory call returns: the caller holds the new storage, on which no *)
(* resolver has been called yet.                                         *)
Return(k, a, r) ==
    /\ kind' = k
    /\ args' = a
    /\ storage' = r.storage
    /\ setup' = r.setup
    /\ out' = r.out
    /\ cacheCalls' = <<>>

(* The calls of each factory over given inputs: the arguments of each,  *)
(* as the model records them, with what the factory returns for them.    *)
MaskCalls(F, P, E) ==
    {[args |-> [BaseArgs EXCEPT !.font = font, !.paint = paint, !.hasPaint = TRUE,
                                !.surfaceProps = env.surfaceProps, !.flags = env.flags,
                                !.matrix = env.matrix],
      result |-> MakeMask(font, paint, env.surfaceProps, env.flags, env.matrix)] :
        font \in F, paint \in P, env \in E}

PathCalls(F, P, E) ==
    {[args |-> [BaseArgs EXCEPT !.font = font, !.paint = paint, !.hasPaint = TRUE,
                                !.surfaceProps = env.surfaceProps, !.flags = env.flags],
      result |-> MakePath(font, paint, env.surfaceProps, env.flags)] :
        font \in F, paint \in P, env \in E}

SourceFallbackCalls(F, P, E) ==
    {[args |-> [BaseArgs EXCEPT !.font = font, !.paint = paint, !.hasPaint = TRUE,
                                !.surfaceProps = env.surfaceProps, !.flags = env.flags,
                                !.maxDim = env.maxDim],
      result |-> MakeSourceFallback(font, paint, env.surfaceProps, env.flags,
                                    env.maxDim)] :
        font \in F, paint \in P, env \in E}

CanonicalizedCalls(F, P) ==
    {[args |-> [BaseArgs EXCEPT !.font = font, !.paint = paint, !.hasPaint = TRUE],
      result |-> MakeCanonicalized(font, TRUE, paint)] : font \in F, paint \in P}
    \cup
    {[args |-> [BaseArgs EXCEPT !.font = font],
      result |-> MakeCanonicalized(font, FALSE, DefaultPaint)] : font \in F}

PDFVectorCalls(T) ==
    {[args |-> [BaseArgs EXCEPT !.typeface = typeface, !.hasSize = hasSize],
      result |-> MakePDFVector(typeface, hasSize)] :
        typeface \in T, hasSize \in BOOLEAN}

SDFTCalls(F, P, E) ==
    {[args |-> [BaseArgs EXCEPT !.font = font, !.paint = paint, !.hasPaint = TRUE,
                                !.surfaceProps = env.surfaceProps, !.matrix = env.matrix,
                                !.options = env.options],
      result |-> MakeSDFT(font, paint, env.surfaceProps, env.matrix, env.options)] :
        font \in F, paint \in P, env \in E}

AllMaskCalls == MaskCalls(Fonts, Paints, MaskEnvs)

AllPathCalls == PathCalls(Fonts, Paints, PathEnvs)

AllSourceFallbackCalls == SourceFallbackCalls(Fonts, Paints, FallbackEnvs)

AllCanonicalizedCalls == CanonicalizedCalls(Fonts, Paints)

AllPDFVectorCalls == PDFVectorCalls(PDFTypefaces)

AllSDFTCalls == SDFTCalls(Fonts, Paints, SDFTEnvs)

DoMakeMask ==
    \E c \in AllMaskCalls : Return("Mask", c.args, c.result) /\ UNCHANGED prev

DoMakePath ==
    \E c \in AllPathCalls : Return("Path", c.args, c.result) /\ UNCHANGED prev

DoMakeSourceFallback ==
    \E c \in AllSourceFallbackCalls :
        Return("SourceFallback", c.args, c.result) /\ UNCHANGED prev

DoMakeCanonicalized ==
    \E c \in AllCanonicalizedCalls :
        Return("Canonicalized", c.args, c.result) /\ UNCHANGED prev

DoMakeDefault == Return("Default", BaseArgs, MakeDefault) /\ UNCHANGED prev

DoMakePDFVector ==
    \E c \in AllPDFVectorCalls : Return("PDFVector", c.args, c.result) /\ UNCHANGED prev

DoMakeSDFT ==
    \E c \in AllSDFTCalls : Return("SDFT", c.args, c.result) /\ UNCHANGED prev

(* A resolver of the storage the caller holds calls the cache. *)
Resolve(call) ==
    /\ kind # "none"
    /\ Len(cacheCalls) < MaxCalls
    /\ cacheCalls' = Append(cacheCalls, call)
    /\ UNCHANGED <<storage, kind, args, setup, out, prev>>

DoFindOrCreateGrStrike == Resolve(findOrCreateGrStrike(storage))

DoFindOrCreateScopedStrike == Resolve(findOrCreateScopedStrike(storage))

DoFindOrCreateExclusiveStrike == Resolve(findOrCreateExclusiveStrike(storage))

Next ==
    \/ DoMakeMask
    \/ DoMakePath
    \/ DoMakeSourceFallback
    \/ DoMakeCanonicalized
    \/ DoMakeDefault
    \/ DoMakePDFVector
    \/ DoMakeSDFT
    \/ DoFindOrCreateGrStrike
    \/ DoFindOrCreateScopedStrike
    \/ DoFindOrCreateExclusiveStrike

Spec == Init /\ [][Next]_vars

(* Two calls in a row: the first one is remembered (kind, arguments and  *)
(* result), or an older one is kept, and the next is made.               *)
Remember ==
    \E keep \in BOOLEAN :
        prev' = IF keep \/ kind = "none" THEN prev
                ELSE [kind |-> kind, args |-> args, storage |-> storage, out |-> out]

AgainMakeMask ==
    \E c \in MaskCalls(FewFonts, FewPaints, FewMaskEnvs) :
        Return("Mask", c.args, c.result) /\ Remember

AgainMakePath ==
    \E c \in PathCalls(FewFonts, FewPaints, FewPathEnvs) :
        Return("Path", c.args, c.result) /\ Remember

AgainMakeSourceFallback ==
    \E c \in SourceFallbackCalls(FewFonts, FewPaints, FewFallbackEnvs) :
        Return("SourceFallback", c.args, c.result) /\ Remember

AgainMakeCanonicalized ==
    \E c \in CanonicalizedCalls(FewFonts, FewPaints) :
        Return("Canonicalized", c.args, c.result) /\ Remember

AgainMakeDefault == Return("Default", BaseArgs, MakeDefault) /\ Remember

AgainMakePDFVector ==
    \E c \in PDFVectorCalls(FewTypefaces) :
        Return("PDFVector", c.args, c.result) /\ Remember

AgainMakeSDFT ==
    \E c \in SDFTCalls(FewFonts, FewPaints, FewSDFTEnvs) :
        Return("SDFT", c.args, c.result) /\ Remember

NextTwoCalls ==
    \/ AgainMakeMask
    \/ AgainMakePath
    \/ AgainMakeSourceFallback
    \/ AgainMakeCanonicalized
    \/ AgainMakeDefault
    \/ AgainMakePDFVector
    \/ AgainMakeSDFT

SpecTwoCalls == Init /\ [][NextTwoCalls]_vars

(* ------------------------------------------------------------------ *)
(* Properties                                                           *)
(* ------------------------------------------------------------------ *)

(* C1: MakeSourceFallback with text size s and maxSourceGlyphDimension d *)
(* hands commonSetup a font of size floor((maxAtlasDimension / d) * s),  *)
(* maxAtlasDimension being the atlas side limit minus 2, and stores the  *)
(* ratio s / that size; s = 100, d = 500 gives 818 and 100/818.          *)
C1_FallbackSizeAndRatio ==
    kind = "SourceFallback" =>
        LET s        == args.font.fSize
            d        == args.maxDim
            maxAtlas == SkIntToScalar(kSkSideTooBigForAtlas - 2)
            size     == SkScalarFloorToScalar(F32Mul(F32Div(maxAtlas, d), s))
        IN  /\ setup.font.fSize = size
            /\ storage.fAutoDescriptor.textSize = size
            /\ storage.fStrikeToSourceRatio = F32Div(s, size)
            /\ (s = SkIntToScalar(100) /\ d = SkIntToScalar(500)) =>
                   /\ maxAtlas = SkIntToScalar(4094)
                   /\ setup.font.fSize = SkIntToScalar(818)
                   /\ storage.fStrikeToSourceRatio =
                          [c |-> "fin", m |-> 16408035, e |-> 0 - 27]

C1_Witness ==
    /\ kind = "SourceFallback"
    /\ args.font.fSize = SkIntToScalar(100)
    /\ args.maxDim = SkIntToScalar(500)
    /\ setup.font.fSize = SkIntToScalar(818)

(* C2: for every MakeSourceFallback call with a positive text size and a *)
(* positive maxSourceGlyphDimension the fallback text size is above zero *)
(* and the ratio is a finite positive number.                            *)
C2_FallbackSizePositive ==
    (kind = "SourceFallback" /\ F32Pos(args.font.fSize) /\ F32Pos(args.maxDim)) =>
        /\ F32Pos(setup.font.fSize)
        /\ F32Pos(storage.fStrikeToSourceRatio)

(* C3: MakePDFVector resolves the size to the typeface's units-per-em    *)
(* when that is > 0 and to 1024 otherwise; the descriptor's font has     *)
(* that size, no hinting and aliased edging; a size output, when given,  *)
(* receives the same value.                                              *)
C3_PDFVectorSize ==
    kind = "PDFVector" =>
        LET u        == getUnitsPerEm(args.typeface)
            resolved == IF u > 0 THEN u ELSE 1024
        IN  /\ setup.font.fSize = SkIntToScalar(resolved)
            /\ setup.font.fHinting = "none"
            /\ setup.font.fEdging = "alias"
            /\ storage.fAutoDescriptor.textSize = SkIntToScalar(resolved)
            /\ storage.fAutoDescriptor.hinting = "none"
            /\ storage.fAutoDescriptor.edging = "alias"
            /\ args.hasSize => (out.sizeGiven /\ out.size = resolved)

C3_Witness ==
    /\ kind = "PDFVector"
    /\ getUnitsPerEm(args.typeface) = 0
    /\ args.hasSize
    /\ out.size = 1024
    /\ setup.font.fSize = SkIntToScalar(1024)

CanonicalizedCommon ==
    LET paint0  == IF args.hasPaint THEN args.paint ELSE DefaultPaint
        asPaths == ShouldDrawTextAsPaths(args.font, paint0)
    IN  /\ asPaths =>
               /\ setup.font.fSize = SkIntToScalar(kCanonicalTextSizeForPaths)
               /\ setup.font.fHinting = "none"
               /\ setup.paint = DefaultPaint
               /\ storage.fStrikeToSourceRatio = MakePath(args.font, paint0, "legacyFontHost",
                                                          "fakeGammaAndBoostContrast"
                                                         ).storage.fStrikeToSourceRatio
        /\ ~asPaths =>
               /\ setup.font = args.font
               /\ setup.paint = paint0
               /\ storage.fStrikeToSourceRatio = F32One
        /\ setup.matrix = "I"
        /\ setup.surfaceProps = "legacyFontHost"
        /\ setup.flags = "fakeGammaAndBoostContrast"
        /\ storage.fAutoDescriptor =
               CreateDescriptor(setup.font, setup.paint, "legacyFontHost",
                                "fakeGammaAndBoostContrast", "I")

ResolverStep == cacheCalls' # cacheCalls /\ cacheCalls' # <<>>

(* The cache was called exactly once and the storage was left alone. *)
OneCallNoMutation ==
    /\ storage' = storage
    /\ Len(cacheCalls') = Len(cacheCalls) + 1
    /\ SubSeq(cacheCalls', 1, Len(cacheCalls)) = cacheCalls

(* The last recorded call carries the descriptor, effects and typeface   *)
(* the storage holds, path effect as path effect, mask filter as mask    *)
(* filter.                                                               *)
PassesAll(c) ==
    /\ c.desc = storage.fAutoDescriptor
    /\ c.passed
    /\ c.fPathEffect = storage.fPathEffect
    /\ c.fMaskFilter = storage.fMaskFilter
    /\ c.typeface = storage.fTypeface

C8_SDFTRange ==
    kind = "SDFT" =>
        LET r == InitDistanceFieldMinMaxScale(args.font.fSize, args.matrix, args.options)
        IN  /\ out.minScale = r.minScale
            /\ out.maxScale = r.maxScale
            /\ F32Leq(r.maxScale, r.minScale) => F32Leq(out.maxScale, out.minScale)
            /\ setup.flags = "none"
            /\ storage.fAutoDescriptor.flags = "none"
            /\ setup.matrix = "I"
            /\ storage.fAutoDescriptor.matrix = "I"

C8_Witness ==
    /\ kind = "SDFT"
    /\ args.matrix = "scale8"
    /\ args.font.fSize = SkIntToScalar(1)
    /\ out.minScale = SkIntToScalar(5)
    /\ out.maxScale = SkIntToScalar(4)
    /\ F32Leq(out.maxScale, out.minScale)

(* C9: after any factory returns, also for a font with a null typeface,  *)
(* the storage's typeface is not null, and so is the typeface every      *)
(* resolver hands to the cache.                                          *)
C9_TypefaceNotNull ==
    kind # "none" =>
        /\ storage.fTypeface # "null"
        /\ \A i \in 1..Len(cacheCalls) :
               cacheCalls[i].passed => cacheCalls[i].typeface # "null"

C9_Witness ==
    /\ kind = "Mask"
    /\ args.font.fTypeface = "null"
    /\ storage.fTypeface = "default"
    /\ Len(cacheCalls) > 0
    /\ cacheCalls[1].passed

(* C10: MakeMask hands font, paint, surface properties, flags and device *)
(* matrix to commonSetup unchanged and leaves the ratio at 1; every      *)
(* other factory builds its descriptor with the identity matrix.         *)
C10_MaskAsGiven ==
    /\ kind = "Mask" =>
           /\ setup = SetupArgs(args.font, args.paint, args.surfaceProps,
                                args.flags, args.matrix)
           /\ storage.fAutoDescriptor =
                  CreateDescriptor(args.font, args.paint, args.surfaceProps,
                                   args.flags, args.matrix)
           /\ storage.fStrikeToSourceRatio = F32One
    /\ kind \notin {"none", "Mask"} =>
           /\ setup.matrix = "I"
           /\ storage.fAutoDescriptor.matrix = "I"

C10_Witness ==
    /\ kind = "Mask"
    /\ args.matrix = "scale8"
    /\ args.font.fSubpixel
    /\ storage.fAutoDescriptor.matrix = "scale8"

====
